---------------------------- MODULE Spec2Model ----------------------------
(***************************************************************************)
(* The Order aggregate of src/src/domain/order/entities/Order.ts as a      *)
(* state machine: one order, built by Order.create and then driven by      *)
(* updateStatus, addItem, removeItem, updateItemQuantity and               *)
(* updateDiscountAmount.  Every call is one step; a call that throws is a  *)
(* step too, and the variable call records the call, its arguments and     *)
(* the error it threw ("ok" when it returned).                             *)
(*                                                                         *)
(* Amounts are integers in mills (1/1000 of the currency unit, 10 mills    *)
(* to the cent), so that values between two cents and exact half-cent ties *)
(* exist.  The sub-cent inputs used are multiples of 1/8 or +-0.005, for   *)
(* which the IEEE-754 products and sums of the code are exact, so integer  *)
(* arithmetic on mills computes what the code computes.                    *)
(***************************************************************************)
EXTENDS Integers, Sequences, FiniteSets, TLC

VARIABLES created, orderId, userId, status, items, orderDiscount, call

\* The same class with its objects kept by reference (SpecArguments,
\* SpecAccessors and SpecClone, below):
\* objects, arrays and dates are the heap (an address is an index), orders
\* the Order instances, held the references the caller keeps, heapCall the
\* last call.
VARIABLES objects, arrays, dates, orders, held, heapCall

orderVars == <<created, orderId, userId, status, items, orderDiscount, call>>

heapVars == <<objects, arrays, dates, orders, held, heapCall>>

\* One ProductWarehouseStock (SpecStock, below): whether it was constructed,
\* its _quantity, and the last call.
VARIABLES stockCreated, stockQuantity, stockCall

stockVars == <<stockCreated, stockQuantity, stockCall>>

\* One CreateOrderUseCase with its collaborators (SpecUseCase, below):
\* savedOrders is the orders array of the order repository, saveCalls the
\* number of orderRepository.save calls, idsDrawn the number of
\* idGenerator.generate calls, executed the last execute call.
VARIABLES savedOrders, saveCalls, idsDrawn, executed

useCaseVars == <<savedOrders, saveCalls, idsDrawn, executed>>

\* One Shipment (SpecShipment, below): its _status ("None" before it is
\* constructed), its _delivery, and the last call.
VARIABLES shipmentStatus, shipmentDelivery, shipmentCall

shipmentVars == <<shipmentStatus, shipmentDelivery, shipmentCall>>

vars == <<created, orderId, userId, status, items, orderDiscount, call,
          objects, arrays, dates, orders, held, heapCall,
          stockCreated, stockQuantity, stockCall,
          savedOrders, saveCalls, idsDrawn, executed,
          shipmentStatus, shipmentDelivery, shipmentCall>>

\* what the steps of one class leave alone: the variables of the others
notOrderVars == <<heapVars, stockVars, useCaseVars, shipmentVars>>
notHeapVars == <<orderVars, stockVars, useCaseVars, shipmentVars>>
notStockVars == <<orderVars, heapVars, useCaseVars, shipmentVars>>
notUseCaseVars == <<orderVars, heapVars, stockVars, shipmentVars>>
notShipmentVars == <<orderVars, heapVars, stockVars, useCaseVars>>

-----------------------------------------------------------------------------
(* Bounds of the model *)

\* longest item list the model builds (create and addItem)
MaxItems == 2
\* item objects, arrays and Date objects the heap may hold
MaxObjects == 5
MaxArrays == 4
MaxDates == 2
\* largest stock quantity the model builds
MaxStock == 8
\* ids the id generator hands out
MaxIds == 4

-----------------------------------------------------------------------------
(* Types and inputs *)

OrderStatus == {"Pending", "Confirmed", "Processing", "Shipped", "Delivered", "Cancelled"}

\* status of the model while no order has been constructed
NoStatus == "None"

\* the _delivery of a shipment that has none (null)
NoDelivery == <<>>

\* an Order instance that does not exist (yet); of an instance that exists,
\* items is the address of its _items array and orderDate that of its Date
NoOrder ==
    [exists |-> FALSE, orderId |-> "", userId |-> "", orderDate |-> 0,
     status |-> NoStatus, items |-> 0, orderDiscount |-> 0]

OrderItem(id, prod, qty, price, wh, disc) ==
    [orderItemId |-> id, productId |-> prod, quantity |-> qty,
     priceAtPurchase |-> price, warehouseId |-> wh, discountAmount |-> disc]

\* The items callers pass: a plain line (1.00), a line with a sub-cent price
\* (0.125), and a line whose fixed discount (2.00) exceeds its price; the
\* last two carry the same orderItemId, which nothing in the code forbids.
ItemPool ==
    { OrderItem("a", "p1", q, 1000, "w1", 0) : q \in {1, 2} } \cup
    { OrderItem("b", "p2", q, 125, "w1", 0) : q \in {1, 2} } \cup
    { OrderItem("b", "p3", q, 1000, "w1", 2000) : q \in {1, 2} }

\* item ids callers ask for: the two in use and one no item carries
ItemIds == {"a", "b", "zz"}

\* quantities callers ask for in updateItemQuantity
Quantities == {0 - 1, 0, 1, 2}

\* order-level discount amounts callers ask for, in mills:
\* -1.00, -0.005, 0, 0.125, 2.00, 50.00
Amounts == {0 - 1000, 0 - 5, 0, 125, 2000, 50000}

OrderIds == {"", "order-1"}
UserIds == {"", "user-1"}

RECURSIVE SeqsUpTo(_, _)
SeqsUpTo(S, n) ==
    IF n = 0 THEN {<<>>}
    ELSE LET shorter == SeqsUpTo(S, n - 1)
         IN shorter \cup { Append(s, x) : s \in { t \in shorter : Len(t) = n - 1 }, x \in S }

ItemLists == SeqsUpTo(ItemPool, MaxItems)

-----------------------------------------------------------------------------
(* Error messages *)

ErrOrderId == "Order ID is required"
ErrUserId == "User ID is required"
ErrNoItems == "Order must contain at least one item"
ErrNegative == "Discount amount cannot be negative"
ErrExceeds == "Discount amount cannot be greater than total amount"
ErrTransition == "Invalid status transition"
ErrStatus == "Cannot modify items in current order status"
ErrNotFound == "Item not found in order"
ErrLastItem == "Cannot remove last item from order"
ErrQuantity == "Quantity must be greater than zero"
Ok == "ok"

-----------------------------------------------------------------------------
(* Monetary computation *)

\* Math.round(value * 100) / 100: Math.round is floor(x + 1/2), so a tie goes
\* towards +Infinity; toFixed(2) and Number then change nothing (-0 compares
\* equal to 0).
round(value) == ((value + 5) \div 10) * 10

RECURSIVE SumSubtotals(_)
SumSubtotals(its) ==
    IF its = <<>> THEN 0
    ELSE its[1].priceAtPurchase * its[1].quantity + SumSubtotals(Tail(its))

\* faulty variant: the line discount is taken per unit
RECURSIVE SumDiscountsPerUnit(_)
SumDiscountsPerUnit(its) ==
    IF its = <<>> THEN 0
    ELSE its[1].discountAmount * its[1].quantity + SumDiscountsPerUnit(Tail(its))

RECURSIVE SumDiscounts(_)
SumDiscounts(its) ==
    IF its = <<>> THEN 0
    ELSE its[1].discountAmount + SumDiscounts(Tail(its))

\* faulty variant: every line is rounded before it is added
RECURSIVE SumRoundedSubtotals(_)
SumRoundedSubtotals(its) ==
    IF its = <<>> THEN 0
    ELSE round(its[1].priceAtPurchase * its[1].quantity) + SumRoundedSubtotals(Tail(its))

calculateRawSubtotalRoundingLines(its) == round(SumRoundedSubtotals(its))

calculateRawSubtotal(its) == round(SumSubtotals(its))

calculateItemDiscountsTotalPerUnit(its) == round(SumDiscountsPerUnit(its))

calculateItemDiscountsTotal(its) == round(SumDiscounts(its))

calculateTotalAfterItemDiscounts(its) ==
    round(calculateRawSubtotal(its) - calculateItemDiscountsTotal(its))

subtotal == calculateRawSubtotal(items)
itemDiscounts == calculateItemDiscountsTotal(items)
totalAmount == calculateTotalAfterItemDiscounts(items)
finalAmount == round(totalAmount - orderDiscount)

-----------------------------------------------------------------------------
(* Private helpers *)

\* the error validateOrderDiscount throws for the item list its, or Ok
validateOrderDiscount(its, discount) ==
    IF discount > calculateTotalAfterItemDiscounts(its) THEN ErrExceeds ELSE Ok

validTransitions ==
    [s \in OrderStatus |->
        CASE s = "Pending" -> {"Confirmed", "Cancelled"}
          [] s = "Confirmed" -> {"Processing", "Cancelled"}
          [] s = "Processing" -> {"Shipped", "Cancelled"}
          [] s = "Shipped" -> {"Delivered", "Cancelled"}
          [] s = "Delivered" -> {}
          [] s = "Cancelled" -> {}]

\* faulty variant: a step of the happy path may be skipped
isValidStatusTransitionSkipping(current, newStatus) ==
    \/ newStatus \in validTransitions[current]
    \/ current = "Pending" /\ newStatus = "Processing"

\* faulty variant: a delivered order may still be cancelled
isValidStatusTransitionReopening(current, newStatus) ==
    \/ newStatus \in validTransitions[current]
    \/ current = "Delivered" /\ newStatus = "Cancelled"

\* faulty variant: a shipped order may go back to processing
isValidStatusTransitionBackwards(current, newStatus) ==
    \/ newStatus \in validTransitions[current]
    \/ current = "Shipped" /\ newStatus = "Processing"

isValidStatusTransition(current, newStatus) == newStatus \in validTransitions[current]

\* faulty variant: items stay modifiable once the order is confirmed
canModifyItemsUntilProcessing(current) == current \in {"Pending", "Confirmed"}

\* faulty variant: only a cancelled order is frozen
canModifyItemsUnlessCancelled(current) == current # "Cancelled"

canModifyItems(current) == current \in {"Pending"}

\* Array.prototype.find(item => item.orderItemId === id): index of the first
\* match, 0 when there is none
RECURSIVE FindFrom(_, _, _)
FindFrom(its, id, i) ==
    IF i > Len(its) THEN 0
    ELSE IF its[i].orderItemId = id THEN i
    ELSE FindFrom(its, id, i + 1)

find(its, id) == FindFrom(its, id, 1)

\* Array.prototype.filter(item => item.orderItemId !== id)
RECURSIVE filter(_, _)
filter(its, id) ==
    IF its = <<>> THEN <<>>
    ELSE IF its[1].orderItemId # id THEN <<its[1]>> \o filter(Tail(its), id)
    ELSE filter(Tail(its), id)

-----------------------------------------------------------------------------
(* Initial state: no order constructed yet.  A behaviour is the life of one  *)
(* order: the factory is called once, and when it throws there is no order *)
(* to call anything on.                                                    *)

Init ==
    /\ created = FALSE
    /\ orderId = ""
    /\ userId = ""
    /\ status = NoStatus
    /\ items = <<>>
    /\ orderDiscount = 0
    /\ call = [op |-> "none", args |-> <<>>, result |-> Ok]
    /\ objects = <<>>
    /\ arrays = <<>>
    /\ dates = <<>>
    /\ orders = [o \in {"order", "clone"} |-> NoOrder]
    /\ held = [argItems |-> 0, argItem |-> 0, gotItems |-> 0, gotDate |-> 0]
    /\ heapCall = [op |-> "none", target |-> "", source |-> ""]
    /\ stockCreated = FALSE
    /\ stockQuantity = 0
    /\ stockCall = [op |-> "none", amount |-> 0, result |-> Ok]
    /\ savedOrders = <<>>
    /\ saveCalls = 0
    /\ idsDrawn = 0
    /\ executed = [op |-> "none"]
    /\ shipmentStatus = NoStatus
    /\ shipmentDelivery = NoDelivery
    /\ shipmentCall = [op |-> "none", args |-> <<>>, result |-> Ok]

-----------------------------------------------------------------------------
(* Order.create *)

\* faulty variant: the item list is looked at before the identity fields
createResultItemsFirst(oid, uid, its, discountAmount) ==
    IF Len(its) = 0 THEN ErrNoItems
    ELSE IF oid = "" THEN ErrOrderId
    ELSE IF uid = "" THEN ErrUserId
    ELSE IF round(discountAmount) < 0 THEN ErrNegative
    ELSE IF round(discountAmount) > calculateTotalAfterItemDiscounts(its) THEN ErrExceeds
    ELSE Ok

\* the error Order.create throws for these arguments, or Ok
createResult(oid, uid, its, discountAmount) ==
    IF oid = "" THEN ErrOrderId
    ELSE IF uid = "" THEN ErrUserId
    ELSE IF Len(its) = 0 THEN ErrNoItems
    ELSE IF round(discountAmount) < 0 THEN ErrNegative
    ELSE IF round(discountAmount) > calculateTotalAfterItemDiscounts(its) THEN ErrExceeds
    ELSE Ok

\* the body of Order.create, for the arguments args as the caller gave them
\* and the value discountAmount the parameter then has
construct(args, discountAmount) ==
    /\ ~created
    /\ call.op = "none"
    /\ LET res == createResult(args.orderId, args.userId, args.items, discountAmount) IN
         /\ call' = [op |-> "create", args |-> args, result |-> res]
         /\ IF res = Ok
            THEN /\ created' = TRUE
                 /\ orderId' = args.orderId
                 /\ userId' = args.userId
                 /\ status' = "Pending"
                 /\ items' = args.items
                 /\ orderDiscount' = round(discountAmount)
            ELSE UNCHANGED <<created, orderId, userId, status, items, orderDiscount>>

create(oid, uid, its, discountAmount) ==
    construct([orderId |-> oid, userId |-> uid, items |-> its,
               discountAmount |-> discountAmount], discountAmount)

\* Order.create(orderId, userId, items): discountAmount takes its default, 0
createDefaultDiscount(oid, uid, its) ==
    construct([orderId |-> oid, userId |-> uid, items |-> its], 0)

-----------------------------------------------------------------------------
(* Status management *)

updateStatus(newStatus) ==
    /\ created
    /\ IF isValidStatusTransition(status, newStatus)
       THEN /\ status' = newStatus
            /\ call' = [op |-> "updateStatus", args |-> [newStatus |-> newStatus],
                        result |-> Ok]
       ELSE /\ status' = status
            /\ call' = [op |-> "updateStatus", args |-> [newStatus |-> newStatus],
                        result |-> ErrTransition]
    /\ UNCHANGED <<created, orderId, userId, items, orderDiscount>>

-----------------------------------------------------------------------------
(* Item management *)

\* push({...item}) happens before validateOrderDiscount and is not undone
\* when the validation throws
addItem(item) ==
    /\ created
    /\ Len(items) < MaxItems
    /\ IF ~canModifyItems(status)
       THEN /\ items' = items
            /\ call' = [op |-> "addItem", args |-> [item |-> item], result |-> ErrStatus]
       ELSE /\ items' = Append(items, item)
            /\ call' = [op |-> "addItem", args |-> [item |-> item],
                        result |-> validateOrderDiscount(Append(items, item), orderDiscount)]
    /\ UNCHANGED <<created, orderId, userId, status, orderDiscount>>

\* faulty variant: the last-item check comes before the lookup
removeItemResultLastItemFirst(current, its, discount, id) ==
    IF ~canModifyItems(current) THEN ErrStatus
    ELSE IF Len(its) = 1 THEN ErrLastItem
    ELSE IF find(its, id) = 0 THEN ErrNotFound
    ELSE IF discount > calculateTotalAfterItemDiscounts(filter(its, id)) THEN ErrExceeds
    ELSE Ok

\* the error removeItem throws, or Ok
removeItemResult(current, its, discount, id) ==
    IF ~canModifyItems(current) THEN ErrStatus
    ELSE IF find(its, id) = 0 THEN ErrNotFound
    ELSE IF Len(its) = 1 THEN ErrLastItem
    ELSE IF discount > calculateTotalAfterItemDiscounts(filter(its, id)) THEN ErrExceeds
    ELSE Ok

\* faulty variant: the filtered list is stored before the discount is validated
\* against it, as addItem and updateItemQuantity do
removeItemCommittingFirst(id) ==
    /\ created
    /\ LET res == removeItemResult(status, items, orderDiscount, id) IN
         /\ call' = [op |-> "removeItem", args |-> [orderItemId |-> id], result |-> res]
         /\ items' = IF res \in {Ok, ErrExceeds} THEN filter(items, id) ELSE items
    /\ UNCHANGED <<created, orderId, userId, status, orderDiscount>>

removeItem(id) ==
    /\ created
    /\ LET res == removeItemResult(status, items, orderDiscount, id) IN
         /\ call' = [op |-> "removeItem", args |-> [orderItemId |-> id], result |-> res]
         /\ items' = IF res = Ok THEN filter(items, id) ELSE items
    /\ UNCHANGED <<created, orderId, userId, status, orderDiscount>>

\* item.quantity = newQuantity is assigned in place before
\* validateOrderDiscount and is not undone when the validation throws
updateItemQuantity(id, newQuantity) ==
    /\ created
    /\ LET args == [orderItemId |-> id, newQuantity |-> newQuantity]
           i == find(items, id)
       IN
         IF ~canModifyItems(status)
         THEN /\ items' = items
              /\ call' = [op |-> "updateItemQuantity", args |-> args, result |-> ErrStatus]
         ELSE IF newQuantity <= 0
         THEN /\ items' = items
              /\ call' = [op |-> "updateItemQuantity", args |-> args, result |-> ErrQuantity]
         ELSE IF i = 0
         THEN /\ items' = items
              /\ call' = [op |-> "updateItemQuantity", args |-> args, result |-> ErrNotFound]
         ELSE LET updated == [items EXCEPT ![i].quantity = newQuantity] IN
              /\ items' = updated
              /\ call' = [op |-> "updateItemQuantity", args |-> args,
                          result |-> validateOrderDiscount(updated, orderDiscount)]
    /\ UNCHANGED <<created, orderId, userId, status, orderDiscount>>

-----------------------------------------------------------------------------
(* Discount management *)

\* faulty variant: the amount is not compared with the total
updateDiscountResultWithoutCeiling(its, amount) ==
    IF round(amount) < 0 THEN ErrNegative ELSE Ok

\* the error updateDiscountAmount throws, or Ok
updateDiscountResult(its, amount) ==
    IF round(amount) < 0 THEN ErrNegative
    ELSE IF round(amount) > calculateTotalAfterItemDiscounts(its) THEN ErrExceeds
    ELSE Ok

\* faulty variant: the discount is frozen with the items
updateDiscountAmountWhilePending(amount) ==
    /\ created
    /\ LET res == IF ~canModifyItems(status) THEN ErrStatus
                  ELSE updateDiscountResult(items, amount) IN
         /\ call' = [op |-> "updateDiscountAmount", args |-> [amount |-> amount],
                     result |-> res]
         /\ orderDiscount' = IF res = Ok THEN round(amount) ELSE orderDiscount
    /\ UNCHANGED <<created, orderId, userId, status, items>>

updateDiscountAmount(amount) ==
    /\ created
    /\ LET res == updateDiscountResult(items, amount) IN
         /\ call' = [op |-> "updateDiscountAmount", args |-> [amount |-> amount],
                     result |-> res]
         /\ orderDiscount' = IF res = Ok THEN round(amount) ELSE orderDiscount
    /\ UNCHANGED <<created, orderId, userId, status, items>>

-----------------------------------------------------------------------------
(* Specification *)

Next ==
    \/ /\ call.op = "none"
       /\ \E oid \in OrderIds, uid \in UserIds, its \in ItemLists, d \in Amounts :
             create(oid, uid, its, d) /\ UNCHANGED notOrderVars
    \/ /\ call.op = "none"
       /\ \E oid \in OrderIds, uid \in UserIds, its \in ItemLists :
             createDefaultDiscount(oid, uid, its) /\ UNCHANGED notOrderVars
    \/ \E s \in OrderStatus : updateStatus(s) /\ UNCHANGED notOrderVars
    \/ \E item \in ItemPool : addItem(item) /\ UNCHANGED notOrderVars
    \/ \E id \in ItemIds : removeItem(id) /\ UNCHANGED notOrderVars
    \/ \E id \in ItemIds, q \in Quantities :
          updateItemQuantity(id, q) /\ UNCHANGED notOrderVars
    \/ \E a \in Amounts : updateDiscountAmount(a) /\ UNCHANGED notOrderVars

Spec == Init /\ [][Next]_vars

-----------------------------------------------------------------------------
(* The same order, with callers that also pass items whose quantity is not *)
(* positive: OrderItem.quantity is a number, and neither Order.create nor  *)
(* addItem looks at it.                                                    *)

AnyQuantityItemPool ==
    ItemPool \cup { OrderItem("a", "p1", q, 1000, "w1", 0) : q \in {0 - 1, 0} }

AnyQuantityItemLists == SeqsUpTo(AnyQuantityItemPool, MaxItems)

NextAnyQuantity ==
    \/ /\ call.op = "none"
       /\ \E oid \in OrderIds, uid \in UserIds, its \in AnyQuantityItemLists, d \in Amounts :
             create(oid, uid, its, d) /\ UNCHANGED notOrderVars
    \/ /\ call.op = "none"
       /\ \E oid \in OrderIds, uid \in UserIds, its \in AnyQuantityItemLists :
             createDefaultDiscount(oid, uid, its) /\ UNCHANGED notOrderVars
    \/ \E s \in OrderStatus : updateStatus(s) /\ UNCHANGED notOrderVars
    \/ \E item \in AnyQuantityItemPool : addItem(item) /\ UNCHANGED notOrderVars
    \/ \E id \in ItemIds : removeItem(id) /\ UNCHANGED notOrderVars
    \/ \E id \in ItemIds, q \in Quantities :
          updateItemQuantity(id, q) /\ UNCHANGED notOrderVars
    \/ \E a \in Amounts : updateDiscountAmount(a) /\ UNCHANGED notOrderVars

SpecAnyQuantity == Init /\ [][NextAnyQuantity]_vars

-----------------------------------------------------------------------------
(* The Order class with references.  An item object is an index of         *)
(* objects, an array an index of arrays (a sequence of item addresses), a  *)
(* Date an index of dates; nothing is ever freed.  The caller keeps the    *)
(* array it gave to Order.create (held.argItems), the item it gave to      *)
(* addItem (held.argItem) and what the accessors items and orderDate       *)
(* returned last (held.gotItems, held.gotDate), and writes through them.   *)
(* Two instances are followed: "order", made by Order.create, and "clone", *)
(* made by order.clone().                                                  *)

Handles == {"order", "clone"}

\* what the caller passes and writes
HeapItemPool ==
    { OrderItem("a", "p1", 1, 1000, "w1", 0), OrderItem("b", "p2", 1, 1000, "w1", 0) }
\* the arrays given to Order.create: item "a", then items "b"
HeapItem(i) ==
    OrderItem(IF i = 1 THEN "a" ELSE "b", IF i = 1 THEN "p1" ELSE "p2", 1, 1000, "w1", 0)
HeapItemLists == { [i \in 1..n |-> HeapItem(i)] : n \in 0..MaxItems }
HeapItemIds == {"a", "b"}
HeapAmounts == {0, 1000}
HeapQuantities == {1, 2}
HeapStatuses == {"Pending", "Confirmed"}
\* the instant of new Date() in Order.create, and the instants the caller sets
CreationTimes == {1}
Times == {1, 2}

\* the item objects behind a sequence of addresses
Deref(objs, refs) == [i \in 1..Len(refs) |-> objs[refs[i]]]

\* refs.map(item => ({ ...item })): a new object for every element
mapSpread(objs, refs) ==
    [objects |-> objs \o Deref(objs, refs),
     refs |-> [i \in 1..Len(refs) |-> Len(objs) + i]]

\* Order.create keeping the caller's item objects: items.map(item => item)
createItemsShared(objs, refs) == [objects |-> objs, refs |-> refs]

\* clone keeping the original's item objects: [...this._items]
cloneItemsShared(objs, refs) == [refs |-> refs, objects |-> objs]

\* items.map(item => ({ ...item })) in Order.create
createItemsCopy(objs, refs) == mapSpread(objs, refs)

\* this._items.map(item => ({ ...item })) in clone
cloneItemsCopy(objs, refs) == mapSpread(objs, refs)

\* [...this._items] in the accessor items: a new array of the same objects
itemsSnapshot(refs) == refs

\* the items of instance o, by value
ItemsOf(o) == Deref(objects, arrays[orders[o].items])

\* what the accessors of instance o show
View(o) ==
    [orderId |-> orders[o].orderId,
     userId |-> orders[o].userId,
     orderDate |-> dates[orders[o].orderDate],
     status |-> orders[o].status,
     items |-> ItemsOf(o),
     orderDiscount |-> orders[o].orderDiscount]

Live == { o \in Handles : orders[o].exists }

HeapCall(op, target, source) == [op |-> op, target |-> target, source |-> source]

\* the caller builds an array of items and calls Order.create at instant t
heapCreate(oid, uid, its, discountAmount, t) ==
    /\ heapCall.op = "none"
    /\ LET callerObjects == objects \o its
           callerRefs == [i \in 1..Len(its) |-> Len(objects) + i]
           callerArrays == Append(arrays, callerRefs)
           res == createResult(oid, uid, its, discountAmount)
           copy == createItemsCopy(callerObjects, callerRefs)
       IN /\ held' = [held EXCEPT !.argItems = Len(callerArrays)]
          /\ heapCall' = HeapCall("create", "order", "")
          /\ IF res = Ok
             THEN /\ objects' = copy.objects
                  /\ arrays' = Append(callerArrays, copy.refs)
                  /\ dates' = Append(dates, t)
                  /\ orders' = [orders EXCEPT !["order"] =
                        [exists |-> TRUE, orderId |-> oid, userId |-> uid,
                         orderDate |-> Len(dates) + 1, status |-> "Pending",
                         items |-> Len(callerArrays) + 1,
                         orderDiscount |-> round(discountAmount)]]
             ELSE /\ objects' = callerObjects
                  /\ arrays' = callerArrays
                  /\ UNCHANGED <<dates, orders>>

\* faulty variant: confirming an order also drops its discount
heapUpdateStatusDroppingDiscount(o, newStatus) ==
    /\ o \in Live
    /\ IF isValidStatusTransition(orders[o].status, newStatus)
       THEN /\ orders' = [orders EXCEPT ![o].status = newStatus,
                                        ![o].orderDiscount =
                                            IF newStatus = "Confirmed" THEN 0 ELSE @]
            /\ heapCall' = HeapCall("updateStatus", o, "")
       ELSE /\ orders' = orders
            /\ heapCall' = HeapCall("updateStatus", o, "")
    /\ UNCHANGED <<objects, arrays, dates, held>>

heapUpdateStatus(o, newStatus) ==
    /\ o \in Live
    /\ IF isValidStatusTransition(orders[o].status, newStatus)
       THEN /\ orders' = [orders EXCEPT ![o].status = newStatus]
            /\ heapCall' = HeapCall("updateStatus", o, "")
       ELSE /\ orders' = orders
            /\ heapCall' = HeapCall("updateStatus", o, "")
    /\ UNCHANGED <<objects, arrays, dates, held>>

\* the caller makes an item object and passes it; addItem pushes a copy onto
\* the instance's own array, in place
heapAddItem(o, item) ==
    /\ o \in Live
    /\ Len(objects) + 2 <= MaxObjects
    /\ Len(arrays[orders[o].items]) < MaxItems
    /\ LET given == Len(objects) + 1
           pushed == Append(arrays[orders[o].items], given + 1)
           after == Append(Append(objects, item), item)
       IN /\ held' = [held EXCEPT !.argItem = given]
          /\ IF ~canModifyItems(orders[o].status)
             THEN /\ objects' = Append(objects, item)
                  /\ arrays' = arrays
                  /\ heapCall' = HeapCall("addItem", o, "")
             ELSE /\ objects' = after
                  /\ arrays' = [arrays EXCEPT ![orders[o].items] = pushed]
                  /\ heapCall' = HeapCall("addItem", o, "")
    /\ UNCHANGED <<dates, orders>>

\* this._items = newItems: the filtered array is a new array
heapRemoveItem(o, id) ==
    /\ o \in Live
    /\ Len(arrays) < MaxArrays
    /\ LET res == removeItemResult(orders[o].status, ItemsOf(o), orders[o].orderDiscount, id)
           newItems == SelectSeq(arrays[orders[o].items],
                                 LAMBDA r : objects[r].orderItemId # id)
       IN /\ heapCall' = HeapCall("removeItem", o, "")
          /\ IF res = Ok
             THEN /\ arrays' = Append(arrays, newItems)
                  /\ orders' = [orders EXCEPT ![o].items = Len(arrays) + 1]
             ELSE UNCHANGED <<arrays, orders>>
    /\ UNCHANGED <<objects, dates, held>>

\* item.quantity = newQuantity: the object found in the array is written
heapUpdateItemQuantity(o, id, newQuantity) ==
    /\ o \in Live
    /\ LET i == find(ItemsOf(o), id)
           written == [objects EXCEPT ![arrays[orders[o].items][i]].quantity = newQuantity]
       IN IF ~canModifyItems(orders[o].status)
          THEN /\ objects' = objects
               /\ heapCall' = HeapCall("updateItemQuantity", o, "")
          ELSE IF newQuantity <= 0
          THEN /\ objects' = objects
               /\ heapCall' = HeapCall("updateItemQuantity", o, "")
          ELSE IF i = 0
          THEN /\ objects' = objects
               /\ heapCall' = HeapCall("updateItemQuantity", o, "")
          ELSE /\ objects' = written
               /\ heapCall' = HeapCall("updateItemQuantity", o, "")
    /\ UNCHANGED <<arrays, dates, orders, held>>

heapUpdateDiscountAmount(o, amount) ==
    /\ o \in Live
    /\ LET res == updateDiscountResult(ItemsOf(o), amount) IN
         /\ heapCall' = HeapCall("updateDiscountAmount", o, "")
         /\ orders' = IF res = Ok
                      THEN [orders EXCEPT ![o].orderDiscount = round(amount)]
                      ELSE orders
    /\ UNCHANGED <<objects, arrays, dates, held>>

\* get items(): the caller keeps the array returned (it asks once)
getItems(o) ==
    /\ o \in Live
    /\ held.gotItems = 0
    /\ Len(arrays) < MaxArrays
    /\ arrays' = Append(arrays, itemsSnapshot(arrays[orders[o].items]))
    /\ held' = [held EXCEPT !.gotItems = Len(arrays) + 1]
    /\ heapCall' = HeapCall("items", o, "")
    /\ UNCHANGED <<objects, dates, orders>>

\* get orderDate(): new Date(this._orderDate); the caller keeps it (it asks
\* once)
getOrderDate(o) ==
    /\ o \in Live
    /\ held.gotDate = 0
    /\ Len(dates) < MaxDates
    /\ dates' = Append(dates, dates[orders[o].orderDate])
    /\ held' = [held EXCEPT !.gotDate = Len(dates) + 1]
    /\ heapCall' = HeapCall("orderDate", o, "")
    /\ UNCHANGED <<objects, arrays, orders>>

\* order.clone()
clone ==
    /\ "order" \in Live
    /\ "clone" \notin Live
    /\ Len(objects) + Len(arrays[orders["order"].items]) <= MaxObjects
    /\ Len(arrays) < MaxArrays
    /\ Len(dates) < MaxDates
    /\ LET copy == cloneItemsCopy(objects, arrays[orders["order"].items]) IN
         /\ objects' = copy.objects
         /\ arrays' = Append(arrays, copy.refs)
         /\ dates' = Append(dates, dates[orders["order"].orderDate])
         /\ orders' = [orders EXCEPT !["clone"] =
               [orders["order"] EXCEPT !.orderDate = Len(dates) + 1,
                                       !.items = Len(arrays) + 1]]
    /\ heapCall' = HeapCall("clone", "order", "")
    /\ UNCHANGED held

\* the caller writes the quantity of an item object it holds: the i-th of the
\* array given to create or returned by items, or the item given to addItem
callerWritesItem(source, i, quantity) ==
    /\ held[source] # 0
    /\ source \in {"argItems", "gotItems"} => i <= Len(arrays[held[source]])
    /\ source = "argItem" => i = 1
    /\ LET ref == IF source = "argItem" THEN held.argItem ELSE arrays[held[source]][i] IN
         objects' = [objects EXCEPT ![ref].quantity = quantity]
    /\ heapCall' = HeapCall("callerWritesItem", "", source)
    /\ UNCHANGED <<arrays, dates, orders, held>>

\* the caller changes an array it holds: pop(), or push() of its first element
callerWritesArray(source, how) ==
    /\ held[source] # 0
    /\ LET a == held[source] IN
         /\ Len(arrays[a]) > 0
         /\ how = "push" => Len(arrays[a]) < MaxItems
         /\ arrays' = [arrays EXCEPT ![a] =
               IF how = "pop" THEN SubSeq(@, 1, Len(@) - 1) ELSE Append(@, @[1])]
    /\ heapCall' = HeapCall("callerWritesArray", "", source)
    /\ UNCHANGED <<objects, dates, orders, held>>

\* the caller calls setTime on the Date the accessor returned
callerWritesDate(t) ==
    /\ held.gotDate # 0
    /\ dates' = [dates EXCEPT ![held.gotDate] = t]
    /\ heapCall' = HeapCall("callerWritesDate", "", "gotDate")
    /\ UNCHANGED <<objects, arrays, orders, held>>

\* the methods of the class, called on instance o
Methods(o) ==
    \/ \E st \in HeapStatuses : heapUpdateStatus(o, st) /\ UNCHANGED notHeapVars
    \/ \E item \in HeapItemPool : heapAddItem(o, item) /\ UNCHANGED notHeapVars
    \/ \E id \in HeapItemIds : heapRemoveItem(o, id) /\ UNCHANGED notHeapVars
    \/ \E id \in HeapItemIds, q \in HeapQuantities :
          heapUpdateItemQuantity(o, id, q) /\ UNCHANGED notHeapVars
    \/ \E a \in HeapAmounts : heapUpdateDiscountAmount(o, a) /\ UNCHANGED notHeapVars

Construction ==
    /\ heapCall.op = "none"
    /\ \E oid \in OrderIds, uid \in UserIds, its \in HeapItemLists,
          d \in HeapAmounts, t \in CreationTimes :
          heapCreate(oid, uid, its, d, t) /\ UNCHANGED notHeapVars

\* An order and a caller that keeps writing to what it passed in
NextArguments ==
    \/ Construction
    \/ Methods("order")
    \/ \E source \in {"argItems", "argItem"}, i \in 1..MaxItems, q \in HeapQuantities :
          callerWritesItem(source, i, q) /\ UNCHANGED notHeapVars
    \/ \E how \in {"pop", "push"} :
          callerWritesArray("argItems", how) /\ UNCHANGED notHeapVars

SpecArguments == Init /\ [][NextArguments]_vars

\* An order and a caller that writes to what the accessors returned
NextAccessors ==
    \/ Construction
    \/ Methods("order")
    \/ getItems("order") /\ UNCHANGED notHeapVars
    \/ getOrderDate("order") /\ UNCHANGED notHeapVars
    \/ \E i \in 1..MaxItems, q \in HeapQuantities :
          callerWritesItem("gotItems", i, q) /\ UNCHANGED notHeapVars
    \/ \E how \in {"pop", "push"} :
          callerWritesArray("gotItems", how) /\ UNCHANGED notHeapVars
    \/ \E t \in Times : callerWritesDate(t) /\ UNCHANGED notHeapVars

SpecAccessors == Init /\ [][NextAccessors]_vars

\* An order, its clone, and the methods called on either
NextClone ==
    \/ Construction
    \/ clone /\ UNCHANGED notHeapVars
    \/ \E o \in Handles : Methods(o)

SpecClone == Init /\ [][NextClone]_vars

-----------------------------------------------------------------------------
(* ProductWarehouseStock: the stock of one product in one warehouse.       *)
(* Amounts and quantities are integers.                                    *)

ErrStockId == "Stock ID is required"
ErrProductId == "Product ID is required"
ErrWarehouseId == "Warehouse ID is required"
ErrQuantityNegative == "Quantity cannot be negative"
ErrAmount == "Amount must be greater than zero"
ErrInsufficient == "Insufficient stock"

StockIds == {"", "stock-1"}
ProductIds == {"", "p1"}
WarehouseIds == {"", "w1"}

\* amounts and quantities callers pass
StockAmounts == {0 - 1, 0, 1, 2, 3, 5}

StockCall(op, amount, result) == [op |-> op, amount |-> amount, result |-> result]

\* ProductWarehouseStock.create
stockCreate(stockId, productId, warehouseId, quantity) ==
    /\ stockCall.op = "none"
    /\ LET res == IF stockId = "" THEN ErrStockId
                  ELSE IF productId = "" THEN ErrProductId
                  ELSE IF warehouseId = "" THEN ErrWarehouseId
                  ELSE IF quantity < 0 THEN ErrQuantityNegative
                  ELSE Ok
       IN /\ stockCall' = StockCall("create", quantity, res)
          /\ stockCreated' = (res = Ok)
          /\ stockQuantity' = IF res = Ok THEN quantity ELSE stockQuantity

addStock(amount) ==
    /\ stockCreated
    /\ stockQuantity + amount <= MaxStock
    /\ IF amount <= 0
       THEN /\ stockCall' = StockCall("addStock", amount, ErrAmount)
            /\ stockQuantity' = stockQuantity
       ELSE /\ stockCall' = StockCall("addStock", amount, Ok)
            /\ stockQuantity' = stockQuantity + amount
    /\ UNCHANGED stockCreated

\* faulty variant: the stock at hand is not looked at
removeStockUnchecked(amount) ==
    /\ stockCreated
    /\ IF amount <= 0
       THEN /\ stockCall' = StockCall("removeStock", amount, ErrAmount)
            /\ stockQuantity' = stockQuantity
       ELSE /\ stockCall' = StockCall("removeStock", amount, Ok)
            /\ stockQuantity' = stockQuantity - amount
    /\ UNCHANGED stockCreated

removeStock(amount) ==
    /\ stockCreated
    /\ IF amount <= 0
       THEN /\ stockCall' = StockCall("removeStock", amount, ErrAmount)
            /\ stockQuantity' = stockQuantity
       ELSE IF amount > stockQuantity
       THEN /\ stockCall' = StockCall("removeStock", amount, ErrInsufficient)
            /\ stockQuantity' = stockQuantity
       ELSE /\ stockCall' = StockCall("removeStock", amount, Ok)
            /\ stockQuantity' = stockQuantity - amount
    /\ UNCHANGED stockCreated

setQuantity(newQuantity) ==
    /\ stockCreated
    /\ IF newQuantity < 0
       THEN /\ stockCall' = StockCall("setQuantity", newQuantity, ErrQuantityNegative)
            /\ stockQuantity' = stockQuantity
       ELSE /\ stockCall' = StockCall("setQuantity", newQuantity, Ok)
            /\ stockQuantity' = newQuantity
    /\ UNCHANGED stockCreated

NextStock ==
    \/ /\ stockCall.op = "none"
       /\ \E sid \in StockIds, pid \in ProductIds, wid \in WarehouseIds, q \in StockAmounts :
             stockCreate(sid, pid, wid, q) /\ UNCHANGED notStockVars
    \/ \E amount \in StockAmounts : addStock(amount) /\ UNCHANGED notStockVars
    \/ \E amount \in StockAmounts : removeStock(amount) /\ UNCHANGED notStockVars
    \/ \E q \in StockAmounts : setQuantity(q) /\ UNCHANGED notStockVars

SpecStock == Init /\ [][NextStock]_vars

-----------------------------------------------------------------------------
(* CreateOrderUseCase with an order repository that keeps the orders it is *)
(* given in an array (upsert by orderId), a user and a product repository  *)
(* with fixed contents, and an id generator that hands out "id-1", "id-2", *)
(* ...  An execute call is one step: between its awaits no other code      *)
(* touches the request, the items being prepared or the order.             *)

ErrUserNotFound == "User not found"
ErrItemQuantity == "Item quantity must be greater than zero"
ErrDuplicateProduct(productId) == "Duplicate product ID: " \o productId
ErrProductNotFound(productId) == "Product not found: " \o productId

\* the users and products the repositories hold; prices in mills (1.00 and
\* 99.99), the second product with one discount id
KnownUsers == {"user-1"}
Products ==
    [p1 |-> [currentPrice |-> 1000, discountIds |-> <<>>],
     p2 |-> [currentPrice |-> 99990, discountIds |-> <<"disc-1">>]]

\* what callers ask for
RequestUserIds == {"user-1", "nobody"}
RequestEntries ==
    { [productId |-> "p1", quantity |-> 1, warehouseId |-> "w1"],
      [productId |-> "p2", quantity |-> 2, warehouseId |-> "w1"],
      [productId |-> "p2", quantity |-> 0, warehouseId |-> "w1"],
      [productId |-> "zz", quantity |-> 1, warehouseId |-> "w1"] }
RequestItemLists == SeqsUpTo(RequestEntries, MaxItems)
\* discountAmount: 1.00, 500.00, -1.00 (the request without one is a
\* separate case)
RequestDiscounts == {1000, 500000, 0 - 1000}

\* idGenerator.generate(), called for the k-th time
generate(k) == "id-" \o ToString(k)

\* Number(discount.toFixed(2)) of a discount >= 0 in mills
toFixed2(value) == ((value + 5) \div 10) * 10

\* faulty variant: the discount is 10% of the unit price
calculateItemDiscountOfUnitPrice(product, quantity) ==
    IF Len(product.discountIds) > 0
    THEN toFixed2(product.currentPrice \div 10)
    ELSE 0

\* (product.currentPrice * quantity) * 0.1 is a multiple of a mill for the
\* prices above
calculateItemDiscount(product, quantity) ==
    IF Len(product.discountIds) > 0
    THEN toFixed2((product.currentPrice * quantity) \div 10)
    ELSE 0

\* the loop of prepareOrderItems from entry i on: seen are the product ids
\* met, orderItems the items made, drawn the ids drawn so far
RECURSIVE prepareLoop(_, _, _, _, _)
prepareLoop(entries, i, seen, orderItems, drawn) ==
    IF i > Len(entries)
    THEN [error |-> Ok, orderItems |-> orderItems, drawn |-> drawn]
    ELSE LET item == entries[i] IN
         IF item.productId \in seen
         THEN [error |-> ErrDuplicateProduct(item.productId),
               orderItems |-> orderItems, drawn |-> drawn]
         ELSE IF item.quantity <= 0
         THEN [error |-> ErrItemQuantity, orderItems |-> orderItems, drawn |-> drawn]
         ELSE IF item.productId \notin DOMAIN Products
         THEN [error |-> ErrProductNotFound(item.productId),
               orderItems |-> orderItems, drawn |-> drawn]
         ELSE prepareLoop(entries, i + 1, seen \cup {item.productId},
                 Append(orderItems,
                    OrderItem(generate(drawn + 1), item.productId, item.quantity,
                              Products[item.productId].currentPrice, item.warehouseId,
                              calculateItemDiscount(Products[item.productId],
                                                    item.quantity))),
                 drawn + 1)

\* faulty variant: repeated product ids are not looked for
RECURSIVE prepareLoopWithoutSeen(_, _, _, _, _)
prepareLoopWithoutSeen(entries, i, seen, orderItems, drawn) ==
    IF i > Len(entries)
    THEN [error |-> Ok, orderItems |-> orderItems, drawn |-> drawn]
    ELSE LET item == entries[i] IN
         IF item.quantity <= 0
         THEN [error |-> ErrItemQuantity, orderItems |-> orderItems, drawn |-> drawn]
         ELSE IF item.productId \notin DOMAIN Products
         THEN [error |-> ErrProductNotFound(item.productId),
               orderItems |-> orderItems, drawn |-> drawn]
         ELSE prepareLoopWithoutSeen(entries, i + 1, seen,
                 Append(orderItems,
                    OrderItem(generate(drawn + 1), item.productId, item.quantity,
                              Products[item.productId].currentPrice, item.warehouseId,
                              calculateItemDiscount(Products[item.productId],
                                                    item.quantity))),
                 drawn + 1)

prepareOrderItemsWithoutSeen(entries, drawn) ==
    IF Len(entries) = 0
    THEN [error |-> ErrNoItems, orderItems |-> <<>>, drawn |-> drawn]
    ELSE prepareLoopWithoutSeen(entries, 1, {}, <<>>, drawn)

prepareOrderItems(entries, drawn) ==
    IF Len(entries) = 0
    THEN [error |-> ErrNoItems, orderItems |-> <<>>, drawn |-> drawn]
    ELSE prepareLoop(entries, 1, {}, <<>>, drawn)

\* orderRepository.findById: the first order with the id, or none (<<>>)
RECURSIVE findById(_, _)
findById(saved, id) ==
    IF saved = <<>> THEN <<>>
    ELSE IF saved[1].orderId = id THEN <<saved[1]>>
    ELSE findById(Tail(saved), id)

\* orderRepository.save: the order replaces the first one with its id, or
\* is pushed
save(saved, order) ==
    IF \E i \in 1..Len(saved) : saved[i].orderId = order.orderId
    THEN LET i == CHOOSE j \in 1..Len(saved) :
                    /\ saved[j].orderId = order.orderId
                    /\ \A k \in 1..(j - 1) : saved[k].orderId # order.orderId
         IN [saved EXCEPT ![i] = order]
    ELSE Append(saved, order)

\* execute(dto), discountAmount being the value Order.create uses for
\* dto.discountAmount (0 when the request has none)
executeWith(dto, discountAmount) ==
    /\ idsDrawn + Len(dto.items) + 1 <= MaxIds
    /\ IF dto.userId \notin KnownUsers
       THEN /\ executed' = [op |-> "execute", dto |-> dto, result |-> ErrUserNotFound,
                            createCalled |-> FALSE, orderId |-> ""]
            /\ UNCHANGED <<savedOrders, saveCalls, idsDrawn>>
       ELSE LET prepared == prepareOrderItems(dto.items, idsDrawn) IN
            IF prepared.error # Ok
            THEN /\ executed' = [op |-> "execute", dto |-> dto, result |-> prepared.error,
                                 createCalled |-> FALSE, orderId |-> ""]
                 /\ idsDrawn' = prepared.drawn
                 /\ UNCHANGED <<savedOrders, saveCalls>>
            ELSE LET id == generate(prepared.drawn + 1)
                     res == createResult(id, dto.userId, prepared.orderItems, discountAmount)
                     order == [orderId |-> id, userId |-> dto.userId, status |-> "Pending",
                               items |-> prepared.orderItems,
                               orderDiscount |-> round(discountAmount)]
                 IN /\ idsDrawn' = prepared.drawn + 1
                    /\ executed' = [op |-> "execute", dto |-> dto, result |-> res,
                                    createCalled |-> TRUE, orderId |-> id]
                    /\ IF res = Ok
                       THEN /\ savedOrders' = save(savedOrders, order)
                            /\ saveCalls' = saveCalls + 1
                       ELSE UNCHANGED <<savedOrders, saveCalls>>

execute(dto) == executeWith(dto, dto.discountAmount)

executeDefaultDiscount(dto) == executeWith(dto, 0)

NextUseCase ==
    \/ \E uid \in RequestUserIds, entries \in RequestItemLists, d \in RequestDiscounts :
          /\ execute([userId |-> uid, items |-> entries, discountAmount |-> d])
          /\ UNCHANGED notUseCaseVars
    \/ \E uid \in RequestUserIds, entries \in RequestItemLists :
          /\ executeDefaultDiscount([userId |-> uid, items |-> entries])
          /\ UNCHANGED notUseCaseVars

SpecUseCase == Init /\ [][NextUseCase]_vars

-----------------------------------------------------------------------------
(* Shipment: created Pending with no delivery, then driven by              *)
(* markAsInTransit, markAsDelivered and markAsFailed.  Dates are instants  *)
(* (integers), 0 standing for a date that is not given.                    *)

ShipmentStatus == {"Pending", "InTransit", "Delivered", "Failed"}

ErrShipmentId == "Shipment ID is required"
ErrExpectedDate == "Expected delivery date is required"
ErrExpectedDateFuture == "Expected delivery date must be in the future"
ErrTrackingNumber == "Tracking number is required"
ErrCarrier == "Carrier is required"
ErrInTransitFrom(current) == "Cannot mark as in transit from " \o current \o " status"
ErrDeliveredFrom(current) == "Cannot mark as delivered from " \o current \o " status"
ErrDeliveryDate == "Delivery date is required"
ErrSignature == "Signature is required"
ErrDeliveryAddress == "Delivery address is required"
ErrStreet == "Street is required"
ErrCity == "City is required"
ErrState == "State is required"
ErrPostalCode == "Postal code is required"
ErrCountry == "Country is required"
ErrFailDelivered == "Cannot mark delivered shipment as failed"

\* what callers pass to Shipment.create; the call is made at instant Now
Now == 1
NoDate == 0
ShipmentIds == {"", "shipment-1"}
ExpectedDeliveryDates == {NoDate, 1, 2}
TrackingNumbers == {"", "track-1"}
Carriers == {"", "UPS"}

\* what callers pass to markAsDelivered
Address(street, city, state, postalCode, country) ==
    [street |-> street, city |-> city, state |-> state,
     postalCode |-> postalCode, country |-> country]
NoAddress == <<>>
DeliveryAddresses ==
    { NoAddress,
      Address("1 Main St", "Town", "NY", "10001", "USA"),
      Address("", "Town", "NY", "10001", "USA"),
      Address("1 Main St", "", "NY", "10001", "USA"),
      Address("1 Main St", "Town", "", "10001", "USA"),
      Address("1 Main St", "Town", "NY", "", "USA"),
      Address("1 Main St", "Town", "NY", "10001", "") }
Deliveries ==
    [deliveryDate : {NoDate, 3}, signature : {"", "signed"},
     deliveryAddress : DeliveryAddresses]

\* Shipment.create
shipmentCreate(shipmentId, oid, expectedDeliveryDate, trackingNumber, carrier) ==
    /\ shipmentCall.op = "none"
    /\ LET res == IF shipmentId = "" THEN ErrShipmentId
                  ELSE IF oid = "" THEN ErrOrderId
                  ELSE IF expectedDeliveryDate = NoDate THEN ErrExpectedDate
                  ELSE IF expectedDeliveryDate <= Now THEN ErrExpectedDateFuture
                  ELSE IF trackingNumber = "" THEN ErrTrackingNumber
                  ELSE IF carrier = "" THEN ErrCarrier
                  ELSE Ok
       IN /\ shipmentCall' =
                [op |-> "create",
                 args |-> <<shipmentId, oid, expectedDeliveryDate, trackingNumber, carrier>>,
                 result |-> res]
          /\ shipmentStatus' = IF res = Ok THEN "Pending" ELSE shipmentStatus
          /\ UNCHANGED shipmentDelivery

markAsInTransit ==
    /\ shipmentStatus \in ShipmentStatus
    /\ IF shipmentStatus # "Pending"
       THEN /\ shipmentCall' = [op |-> "markAsInTransit", args |-> <<>>,
                                result |-> ErrInTransitFrom(shipmentStatus)]
            /\ shipmentStatus' = shipmentStatus
       ELSE /\ shipmentCall' = [op |-> "markAsInTransit", args |-> <<>>, result |-> Ok]
            /\ shipmentStatus' = "InTransit"
    /\ UNCHANGED shipmentDelivery

\* the error markAsDelivered throws for the delivery given, or Ok
deliveryResult(current, delivery) ==
    IF current # "InTransit" THEN ErrDeliveredFrom(current)
    ELSE IF delivery.deliveryDate = NoDate THEN ErrDeliveryDate
    ELSE IF delivery.signature = "" THEN ErrSignature
    ELSE IF delivery.deliveryAddress = NoAddress THEN ErrDeliveryAddress
    ELSE IF delivery.deliveryAddress.street = "" THEN ErrStreet
    ELSE IF delivery.deliveryAddress.city = "" THEN ErrCity
    ELSE IF delivery.deliveryAddress.state = "" THEN ErrState
    ELSE IF delivery.deliveryAddress.postalCode = "" THEN ErrPostalCode
    ELSE IF delivery.deliveryAddress.country = "" THEN ErrCountry
    ELSE Ok

\* faulty variant: the status is set before the delivery is looked at
markAsDeliveredStatusFirst(delivery) ==
    /\ shipmentStatus \in ShipmentStatus
    /\ LET res == deliveryResult(shipmentStatus, delivery) IN
         /\ shipmentCall' = [op |-> "markAsDelivered", args |-> delivery, result |-> res]
         /\ shipmentStatus' = IF shipmentStatus = "InTransit" THEN "Delivered"
                              ELSE shipmentStatus
         /\ shipmentDelivery' = IF res = Ok THEN delivery ELSE shipmentDelivery

markAsDelivered(delivery) ==
    /\ shipmentStatus \in ShipmentStatus
    /\ LET res == deliveryResult(shipmentStatus, delivery) IN
         /\ shipmentCall' = [op |-> "markAsDelivered", args |-> delivery, result |-> res]
         /\ shipmentStatus' = IF res = Ok THEN "Delivered" ELSE shipmentStatus
         /\ shipmentDelivery' = IF res = Ok THEN delivery ELSE shipmentDelivery

\* faulty variant: a delivered shipment may be marked as failed
markAsFailedFromAnyStatus ==
    /\ shipmentStatus \in ShipmentStatus
    /\ shipmentCall' = [op |-> "markAsFailed", args |-> <<>>, result |-> Ok]
    /\ shipmentStatus' = "Failed"
    /\ UNCHANGED shipmentDelivery

markAsFailed ==
    /\ shipmentStatus \in ShipmentStatus
    /\ IF shipmentStatus = "Delivered"
       THEN /\ shipmentCall' = [op |-> "markAsFailed", args |-> <<>>,
                                result |-> ErrFailDelivered]
            /\ shipmentStatus' = shipmentStatus
       ELSE /\ shipmentCall' = [op |-> "markAsFailed", args |-> <<>>, result |-> Ok]
            /\ shipmentStatus' = "Failed"
    /\ UNCHANGED shipmentDelivery

NextShipment ==
    \/ /\ shipmentCall.op = "none"
       /\ \E sid \in ShipmentIds, oid \in OrderIds, e \in ExpectedDeliveryDates,
             t \in TrackingNumbers, c \in Carriers :
             shipmentCreate(sid, oid, e, t, c) /\ UNCHANGED notShipmentVars
    \/ markAsInTransit /\ UNCHANGED notShipmentVars
    \/ \E delivery \in Deliveries : markAsDelivered(delivery) /\ UNCHANGED notShipmentVars
    \/ markAsFailed /\ UNCHANGED notShipmentVars

SpecShipment == Init /\ [][NextShipment]_vars

-----------------------------------------------------------------------------
(* Properties of the order-level discount and of the item collection *)

\* C1: in every state reached from a successful Order.create by addItem,
\* removeItem, updateItemQuantity, updateDiscountAmount and updateStatus calls,
\* returning or throwing, orderDiscount <= totalAmount.
C1_DiscountWithinTotal == created => orderDiscount <= totalAmount

\* C2: the order holds at least one item in every state reached from a
\* successful Order.create by addItem, removeItem and updateItemQuantity calls.
C2_ItemsNeverEmpty == created => Len(items) >= 1

-----------------------------------------------------------------------------
(* Properties of the status machine *)

C4_TerminalStatus ==
    [][(status \in {"Delivered", "Cancelled"}) => status' = status]_vars

\* updateStatus was asked, in a terminal status, for that same status
C4_Witness ==
    /\ status \in {"Delivered", "Cancelled"}
    /\ call.op = "updateStatus"
    /\ call.args.newStatus = status
    /\ call.result = ErrTransition

-----------------------------------------------------------------------------
(* Properties of item management *)

\* C5: addItem, removeItem and updateItemQuantity return only while the status
\* is Pending; in every other status each such call throws 'Cannot modify
\* items in current order status', whatever its arguments, and leaves items,
\* orderDiscount and status unchanged.
C5_ItemsOnlyWhilePending ==
    [][call'.op \in {"addItem", "removeItem", "updateItemQuantity"} =>
         /\ call'.result = Ok => status = "Pending"
         /\ status # "Pending" =>
              /\ call'.result = ErrStatus
              /\ UNCHANGED <<items, orderDiscount, status>>]_vars

\* a quantity update that would otherwise be refused for its arguments (no
\* such item, quantity 0) was refused for the status, on a Shipped order
C5_Witness ==
    /\ status = "Shipped"
    /\ call.op = "updateItemQuantity"
    /\ call.args.orderItemId = "zz"
    /\ call.args.newQuantity = 0
    /\ call.result = ErrStatus

\* C6: when addItem is called on a Pending order and the existing
\* orderDiscount exceeds the totalAmount of the items with the new one, the
\* call throws and the items afterwards are the items before the call.
C6_AddItemRejectedKeepsItems ==
    [][/\ call'.op = "addItem"
       /\ status = "Pending"
       /\ orderDiscount >
            calculateTotalAfterItemDiscounts(Append(items, call'.args.item))
       => call'.result # Ok /\ items' = items]_vars

\* C7: every updateItemQuantity call that throws (wrong status, newQuantity
\* <= 0, unknown item id, orderDiscount above the total with the new quantity)
\* leaves the quantity of every item, and so totalAmount, unchanged.
C7_FailedQuantityUpdateKeepsQuantities ==
    [][call'.op = "updateItemQuantity" /\ call'.result # Ok =>
         /\ Len(items') = Len(items)
         /\ \A i \in 1..Len(items) : items'[i].quantity = items[i].quantity
         /\ totalAmount' = totalAmount]_vars

\* C8: removeItem validates against the total of the items that would remain
\* before it commits: when orderDiscount exceeds that total the call throws;
\* every removeItem call that throws leaves items, orderDiscount and status
\* unchanged; the items without the removed one are stored only when the call
\* returns.
C8_RemoveItemValidatesFirst ==
    [][call'.op = "removeItem" =>
         LET id == call'.args.orderItemId
             remaining == SelectSeq(items, LAMBDA it : it.orderItemId # id)
             present == \E i \in 1..Len(items) : items[i].orderItemId = id
         IN /\ call'.result # Ok => UNCHANGED <<items, orderDiscount, status>>
            /\ (/\ status = "Pending"
                /\ present
                /\ Len(items) > 1
                /\ orderDiscount > calculateTotalAfterItemDiscounts(remaining))
               => call'.result = ErrExceeds
            /\ call'.result = Ok =>
                 /\ items' = remaining
                 /\ orderDiscount <= calculateTotalAfterItemDiscounts(remaining)
                 /\ UNCHANGED <<orderDiscount, status>>]_vars

\* a removal was refused because the discount would exceed what remains, and
\* the order still holds the item
C8_Witness ==
    /\ call.op = "removeItem"
    /\ call.result = ErrExceeds
    /\ \E i \in 1..Len(items) : items[i].orderItemId = call.args.orderItemId

-----------------------------------------------------------------------------
(* Properties of discount management *)

\* C9: updateDiscountAmount(amount) throws without changing orderDiscount when
\* the amount rounded to 2 decimals (by Order.round) is negative or exceeds the
\* current totalAmount; otherwise it returns and orderDiscount is exactly the
\* rounded amount, so that 0 <= orderDiscount <= totalAmount right after every
\* call that returns.
C9_UpdateDiscountAmount ==
    [][call'.op = "updateDiscountAmount" =>
         LET rounded == round(call'.args.amount) IN
         IF rounded < 0 \/ rounded > totalAmount
         THEN call'.result # Ok /\ orderDiscount' = orderDiscount
         ELSE /\ call'.result = Ok
              /\ orderDiscount' = rounded
              /\ 0 <= orderDiscount' /\ orderDiscount' <= totalAmount']_vars

\* a discount of 0.125 was accepted and stored as 0.13
C9_Witness ==
    /\ call.op = "updateDiscountAmount"
    /\ call.args.amount = 125
    /\ call.result = Ok
    /\ orderDiscount = 130

\* C10: on a Pending order, removeItem of the sole item throws 'Cannot remove
\* last item from order', and removeItem of an id no item carries throws 'Item
\* not found in order', also when the order holds exactly one item (the
\* not-found check comes first); the items are unchanged in both cases.
C10_RemoveLastOrUnknown ==
    [][call'.op = "removeItem" /\ status = "Pending" =>
         LET id == call'.args.orderItemId
             present == \E i \in 1..Len(items) : items[i].orderItemId = id
         IN /\ ~present => call'.result = ErrNotFound /\ items' = items
            /\ (Len(items) = 1 /\ present) =>
                 call'.result = ErrLastItem /\ items' = items]_vars

\* an id no item carries was asked of a Pending order holding one item
C10_Witness ==
    /\ status = "Pending"
    /\ Len(items) = 1
    /\ call.op = "removeItem"
    /\ call.args.orderItemId = "zz"
    /\ call.result = ErrNotFound

-----------------------------------------------------------------------------
(* Properties of the amounts *)

\* the nearest multiple of a cent, a tie going away from zero
RoundHalfAwayFromZero(v) ==
    IF v >= 0 THEN ((v + 5) \div 10) * 10 ELSE 0 - (((0 - v) + 5) \div 10) * 10

\* f[1] + ... + f[n]
RECURSIVE SumTo(_, _)
SumTo(f, n) == IF n = 0 THEN 0 ELSE f[n] + SumTo(f, n - 1)

\* C11: in every reachable state of an order, subtotal = round(sum over the
\* items of priceAtPurchase * quantity), itemDiscounts = round(sum over the
\* items of discountAmount), totalAmount = round(subtotal - itemDiscounts) and
\* finalAmount = round(totalAmount - orderDiscount).
C11_AmountsAreRoundedSums ==
    created =>
        LET n == Len(items)
            lines == [i \in 1..n |-> items[i].priceAtPurchase * items[i].quantity]
            discounts == [i \in 1..n |-> items[i].discountAmount]
        IN /\ subtotal = RoundHalfAwayFromZero(SumTo(lines, n))
           /\ itemDiscounts = RoundHalfAwayFromZero(SumTo(discounts, n))
           /\ totalAmount = RoundHalfAwayFromZero(subtotal - itemDiscounts)
           /\ finalAmount = RoundHalfAwayFromZero(totalAmount - orderDiscount)

\* two lines of 0.125 make a subtotal of 0.25, and a discount of 0.13 is set
C11_Witness ==
    /\ created
    /\ Len(items) = 2
    /\ items[1].priceAtPurchase = 125 /\ items[1].quantity = 1
    /\ items[2].priceAtPurchase = 125 /\ items[2].quantity = 1
    /\ subtotal = 250
    /\ call.op = "updateDiscountAmount"
    /\ call.result = Ok
    /\ orderDiscount = 130
    /\ finalAmount = 120

\* C12: for an order created from and extended with items that each have
\* priceAtPurchase >= 0, discountAmount >= 0 and quantity > 0 (all items of
\* ItemPool do), subtotal, itemDiscounts, totalAmount, orderDiscount and
\* finalAmount are >= 0 in every reachable state.
C12_AmountsNonNegative ==
    created =>
        /\ subtotal >= 0
        /\ itemDiscounts >= 0
        /\ totalAmount >= 0
        /\ orderDiscount >= 0
        /\ finalAmount >= 0

\* C13: no two items of the order carry the same orderItemId, in every state
\* reached through Order.create, addItem, removeItem and updateItemQuantity.
C13_UniqueOrderItemIds ==
    created =>
        \A i, j \in 1..Len(items) :
            i # j => items[i].orderItemId # items[j].orderItemId

\* C14: every item held by an order has quantity > 0: neither Order.create,
\* addItem nor updateItemQuantity leaves an item with quantity <= 0 in the
\* order (checked with callers that pass any quantity, SpecAnyQuantity).
C14_QuantitiesPositive ==
    created => \A i \in 1..Len(items) : items[i].quantity > 0

-----------------------------------------------------------------------------
(* Properties of Order.create *)

\* C15: Order.create checks orderId present, userId present, items non-empty,
\* rounded discount >= 0, rounded discount <= totalAmount, in this order, and
\* throws for the first check that fails; a call that throws produces no order;
\* a call that returns yields an order with status Pending, orderDiscount the
\* rounded discount (0 when the argument is omitted) and the given items in
\* the given order.
C15_CreateValidation ==
    [][call'.op = "create" =>
         LET a == call'.args
             given == IF "discountAmount" \in DOMAIN a THEN a.discountAmount ELSE 0
             expected ==
                 IF a.orderId = "" THEN ErrOrderId
                 ELSE IF a.userId = "" THEN ErrUserId
                 ELSE IF a.items = <<>> THEN ErrNoItems
                 ELSE IF round(given) < 0 THEN ErrNegative
                 ELSE IF round(given) > calculateTotalAfterItemDiscounts(a.items)
                 THEN ErrExceeds
                 ELSE Ok
         IN /\ call'.result = expected
            /\ expected # Ok => ~created' /\ UNCHANGED <<status, items, orderDiscount>>
            /\ expected = Ok =>
                 /\ created'
                 /\ orderId' = a.orderId
                 /\ userId' = a.userId
                 /\ status' = "Pending"
                 /\ orderDiscount' = round(given)
                 /\ items' = a.items]_vars

\* an empty orderId came with an empty item list, and the order id was reported
C15_Witness ==
    /\ ~created
    /\ call.op = "create"
    /\ call.args.orderId = ""
    /\ call.args.items = <<>>
    /\ call.result = ErrOrderId

-----------------------------------------------------------------------------
(* Further properties of discount and item management *)

\* C19: updateDiscountAmount is not gated by the status: in each of the six
\* statuses, Delivered and Cancelled included, a call whose rounded amount is
\* in [0, totalAmount] returns and replaces orderDiscount.
C19_DiscountInEveryStatus ==
    [][/\ call'.op = "updateDiscountAmount"
       /\ status \in OrderStatus
       /\ 0 <= round(call'.args.amount)
       /\ round(call'.args.amount) <= totalAmount
       => call'.result = Ok /\ orderDiscount' = round(call'.args.amount)]_vars

\* the discount of a Delivered order was replaced
C19_Witness ==
    /\ status = "Delivered"
    /\ call.op = "updateDiscountAmount"
    /\ call.args.amount = 2000
    /\ call.result = Ok
    /\ orderDiscount = 2000

\* C20: an item's discount is a fixed line amount: an updateItemQuantity call
\* that returns, changing an item's quantity from q to q', leaves itemDiscounts
\* unchanged, changes the unrounded subtotal by priceAtPurchase * (q' - q), and
\* leaves every other item and orderDiscount unchanged.
C20_QuantityUpdateKeepsLineDiscount ==
    [][call'.op = "updateItemQuantity" /\ call'.result = Ok =>
         LET n == Len(items)
             linesBefore == [i \in 1..n |-> items[i].priceAtPurchase * items[i].quantity]
             linesAfter == [i \in 1..n |-> items'[i].priceAtPurchase * items'[i].quantity]
         IN /\ Len(items') = n
            /\ orderDiscount' = orderDiscount
            /\ itemDiscounts' = itemDiscounts
            /\ \E i \in 1..n :
                 /\ items[i].orderItemId = call'.args.orderItemId
                 /\ items'[i] = [items[i] EXCEPT !.quantity = call'.args.newQuantity]
                 /\ \A j \in 1..n : j # i => items'[j] = items[j]
                 /\ SumTo(linesAfter, n) - SumTo(linesBefore, n) =
                      items[i].priceAtPurchase *
                        (call'.args.newQuantity - items[i].quantity)]_vars

\* the quantity of a line with a discount of 2.00 went from 1 to 2
C20_Witness ==
    /\ call.op = "updateItemQuantity"
    /\ call.result = Ok
    /\ call.args.newQuantity = 2
    /\ \E i \in 1..Len(items) :
         /\ items[i].orderItemId = call.args.orderItemId
         /\ items[i].discountAmount = 2000
         /\ items[i].quantity = 2
    /\ itemDiscounts = 2000

-----------------------------------------------------------------------------
(* Properties of the references handed in and out of an order *)

\* C16: after Order.create succeeds, no change the caller makes to the array
\* it passed in or to the item objects of that array, nor to the item object
\* it passed to addItem, changes what the order shows: orderId, userId,
\* orderDate, status, items (and so totalAmount) and orderDiscount.
C16_CallerArgumentsAreCopied ==
    [][(heapCall'.source \in {"argItems", "argItem"}) =>
         \A o \in Live :
            /\ View(o)' = View(o)
            /\ calculateTotalAfterItemDiscounts(ItemsOf(o))' =
                  calculateTotalAfterItemDiscounts(ItemsOf(o))]_vars

\* the caller has set the quantity of the first item object of the array it
\* gave to Order.create to 2, and the order still holds quantity 1
C16_Witness ==
    /\ "order" \in Live
    /\ heapCall.op = "callerWritesItem"
    /\ heapCall.source = "argItems"
    /\ Len(arrays[held.argItems]) >= 1
    /\ objects[arrays[held.argItems][1]].quantity = 2
    /\ ItemsOf("order")[1].quantity = 1

\* C17: no change the caller makes to the array returned by the accessor
\* items, to an item object of that array, or to the Date returned by the
\* accessor orderDate changes what the order shows: its items, totalAmount
\* and orderDate.
C17_AccessorsReturnSnapshots ==
    [][(heapCall'.source \in {"gotItems", "gotDate"}) =>
         \A o \in Live :
            /\ View(o)' = View(o)
            /\ calculateTotalAfterItemDiscounts(ItemsOf(o))' =
                  calculateTotalAfterItemDiscounts(ItemsOf(o))]_vars

\* the original and the clone hold different arrays, different item objects
\* and different Date objects
SharesNothing ==
    /\ orders["order"].items # orders["clone"].items
    /\ orders["order"].orderDate # orders["clone"].orderDate
    /\ \A i \in 1..Len(arrays[orders["order"].items]),
          j \in 1..Len(arrays[orders["clone"].items]) :
          arrays[orders["order"].items][i] # arrays[orders["clone"].items][j]

\* C18: clone() returns an order that shows the same orderId, userId,
\* orderDate, status, items and orderDiscount as the original and leaves the
\* original as it was; from then on the two share no array, item object or
\* Date, every updateStatus, addItem, removeItem, updateItemQuantity and
\* updateDiscountAmount call on the clone leaves what the original shows
\* unchanged, and every such call on the original leaves what the clone shows
\* unchanged.
C18_CloneSharesNothing ==
    [][/\ (heapCall'.op = "clone") =>
            /\ View("clone")' = View("order")
            /\ View("order")' = View("order")
       /\ orders'["clone"].exists => SharesNothing'
       /\ (orders["clone"].exists /\ heapCall'.target = "clone") =>
            View("order")' = View("order")
       /\ (orders["clone"].exists /\ heapCall'.target = "order") =>
            View("clone")' = View("clone")]_vars

\* updateItemQuantity on the clone has set the quantity of its first item to
\* 2, and the original still holds quantity 1
C18_Witness ==
    /\ "clone" \in Live
    /\ heapCall.op = "updateItemQuantity"
    /\ heapCall.target = "clone"
    /\ ItemsOf("clone")[1].quantity = 2
    /\ ItemsOf("order")[1].quantity = 1

-----------------------------------------------------------------------------
(* Properties of rounding *)

\* C21: Order.round rounds to the nearest cent with ties away from zero, for
\* negative values as for positive ones, and that rounded value is what
\* Order.create and updateDiscountAmount test against 0 and against
\* totalAmount: a call whose amount rounds (ties away from zero) below 0
\* throws 'Discount amount cannot be negative', one that rounds above the
\* total throws, and a call that returns stores that rounded amount.
C21_RoundHalfAwayFromZero ==
    [][(call'.op \in {"create", "updateDiscountAmount"}) =>
         LET given == IF call'.op = "updateDiscountAmount" THEN call'.args.amount
                      ELSE IF "discountAmount" \in DOMAIN call'.args
                           THEN call'.args.discountAmount
                      ELSE 0
             rounded == RoundHalfAwayFromZero(given)
         IN /\ round(given) = rounded
            /\ (rounded < 0 /\ (call'.op = "create" => call'.args.items # <<>>
                                  /\ call'.args.orderId # "" /\ call'.args.userId # ""))
                  => call'.result = ErrNegative
            /\ call'.result = Ok => orderDiscount' = rounded]_vars

-----------------------------------------------------------------------------
(* Properties of the stock *)

\* C22: the quantity of a ProductWarehouseStock created with quantity >= 0 is
\* >= 0 after every addStock, removeStock and setQuantity call; a
\* removeStock(amount) with amount greater than the quantity throws
\* 'Insufficient stock'; and every call that throws leaves the quantity
\* unchanged.
C22_StockNeverNegative ==
    [][/\ stockCreated' => stockQuantity' >= 0
       /\ (stockCall'.op = "removeStock" /\ stockCall'.amount > stockQuantity) =>
             stockCall'.result = ErrInsufficient
       /\ (stockCreated /\ stockCall'.result # Ok) => stockQuantity' = stockQuantity]_vars

\* removeStock(3) was refused on a stock of 2
C22_Witness ==
    /\ stockCreated
    /\ stockCall = StockCall("removeStock", 3, ErrInsufficient)
    /\ stockQuantity = 2

-----------------------------------------------------------------------------
(* Properties of CreateOrderUseCase *)

\* two entries of the request carry the same productId
HasDuplicateProduct(entries) ==
    \E i, j \in 1..Len(entries) : i # j /\ entries[i].productId = entries[j].productId

\* C23: execute throws for a request in which two entries carry the same
\* productId, without having called Order.create; and every execute that
\* throws (unknown user, empty item list, duplicate productId, quantity <= 0,
\* unknown product, validation error of Order.create) has not called
\* orderRepository.save and leaves the saved orders as they were.
C23_FailingExecuteSavesNothing ==
    [][(executed'.op = "execute" /\ useCaseVars' # useCaseVars) =>
         /\ HasDuplicateProduct(executed'.dto.items) =>
               executed'.result # Ok /\ ~executed'.createCalled
         /\ executed'.result # Ok =>
               saveCalls' = saveCalls /\ savedOrders' = savedOrders]_vars

\* a request naming product p1 twice was refused for the repetition, after
\* one id had been drawn for the first entry, and nothing is saved
C23_Witness ==
    /\ executed.op = "execute"
    /\ executed.dto.userId = "user-1"
    /\ Len(executed.dto.items) = 2
    /\ executed.result = ErrDuplicateProduct("p1")
    /\ idsDrawn = 1
    /\ saveCalls = 0
    /\ savedOrders = <<>>

-----------------------------------------------------------------------------
(* Properties of the life of an order *)

\* the place of a status on the path Pending, Confirmed, Processing, Shipped,
\* Delivered
Rank(s) ==
    CASE s = "Pending" -> 1
      [] s = "Confirmed" -> 2
      [] s = "Processing" -> 3
      [] s = "Shipped" -> 4
      [] s = "Delivered" -> 5
      [] OTHER -> 0

\* C24: the statuses an order goes through are a prefix of Pending,
\* Confirmed, Processing, Shipped, Delivered, optionally ended by Cancelled
\* entered from a status that is not terminal.  Step by step: an order starts
\* Pending; every change of status goes one place forward on that path, or to
\* Cancelled from one of Pending..Shipped; nothing changes the status of a
\* Cancelled or Delivered order; and updateStatus to the current status
\* throws.  So no status is held twice, the status never moves backwards, and
\* Delivered is held only after Confirmed, Processing and Shipped, in that
\* order.
C24_StatusPath ==
    [][/\ status' # status =>
            \/ status = NoStatus /\ status' = "Pending"
            \/ Rank(status) \in 1..4 /\ status' = "Cancelled"
            \/ Rank(status) \in 1..4 /\ Rank(status') = Rank(status) + 1
       /\ (call'.op = "updateStatus" /\ call'.args.newStatus = status) =>
             call'.result = ErrTransition /\ status' = status]_vars

\* the end of the path: the order, Shipped, has just become Delivered
C24_Witness ==
    /\ status = "Delivered"
    /\ call.op = "updateStatus"
    /\ call.args.newStatus = "Delivered"
    /\ call.result = Ok

\* C25: once the status of an order has left Pending its items are frozen:
\* no addItem, removeItem, updateItemQuantity, updateStatus or
\* updateDiscountAmount call changes the items or their quantities, and so
\* subtotal, itemDiscounts and totalAmount stay as they are.
C25_ItemsFrozenAfterPending ==
    [][(created /\ status # "Pending") =>
         /\ items' = items
         /\ calculateRawSubtotal(items') = subtotal
         /\ calculateItemDiscountsTotal(items') = itemDiscounts
         /\ calculateTotalAfterItemDiscounts(items') = totalAmount]_vars

\* addItem was called on a Confirmed order and refused
C25_Witness ==
    /\ status = "Confirmed"
    /\ call.op = "addItem"
    /\ call.result = ErrStatus

\* C26: each mutator changes only its own part of the order: updateStatus
\* changes neither items nor orderDiscount, updateDiscountAmount neither
\* status nor items, addItem, removeItem and updateItemQuantity neither
\* status nor orderDiscount, and no step changes orderId, userId or orderDate
\* of an order that exists.
C26_MutatorsChangeTheirPartOnly ==
    [][\A o \in Live :
         /\ (heapCall'.op = "updateStatus") =>
               /\ ItemsOf(o)' = ItemsOf(o)
               /\ orders'[o].orderDiscount = orders[o].orderDiscount
         /\ (heapCall'.op = "updateDiscountAmount") =>
               /\ orders'[o].status = orders[o].status
               /\ ItemsOf(o)' = ItemsOf(o)
         /\ (heapCall'.op \in {"addItem", "removeItem", "updateItemQuantity"}) =>
               /\ orders'[o].status = orders[o].status
               /\ orders'[o].orderDiscount = orders[o].orderDiscount
         /\ View(o)'.orderId = View(o).orderId
         /\ View(o)'.userId = View(o).userId
         /\ View(o)'.orderDate = View(o).orderDate]_vars

\* an order with a discount of 1.00 has been confirmed and keeps the discount
C26_Witness ==
    /\ "order" \in Live
    /\ heapCall.op = "updateStatus"
    /\ orders["order"].status = "Confirmed"
    /\ orders["order"].orderDiscount = 1000

\* C27: the items keep insertion order: an addItem that returns puts the new
\* item last and leaves the others as they were; a removeItem that returns
\* takes out exactly one item, the one with the id given, and leaves the
\* others in their order (the count drops by one); updateItemQuantity never
\* reorders the items.
C27_ItemsKeepInsertionOrder ==
    [][/\ (call'.op = "addItem" /\ call'.result = Ok) =>
             items' = Append(items, call'.args.item)
       /\ (call'.op = "removeItem" /\ call'.result = Ok) =>
             /\ Len(items') = Len(items) - 1
             /\ \E i \in 1..Len(items) :
                   /\ items[i].orderItemId = call'.args.orderItemId
                   /\ items' = SubSeq(items, 1, i - 1) \o SubSeq(items, i + 1, Len(items))
       /\ (call'.op = "updateItemQuantity") =>
             /\ Len(items') = Len(items)
             /\ \A i \in 1..Len(items) :
                   items'[i] = [items[i] EXCEPT !.quantity = items'[i].quantity]]_vars

-----------------------------------------------------------------------------
(* Properties of a successful CreateOrderUseCase.execute *)

\* 10% of price * quantity, as it is
tenPercent(product, quantity) == (product.currentPrice * quantity) \div 10

\* 10% of price * quantity, rounded to the nearest cent
tenPercentToTheCent(product, quantity) ==
    round((product.currentPrice * quantity) \div 10)

\* what a successful execute leaves behind, lineDiscount being the discount
\* of a line whose product has a discount id
SuccessfulExecuteSaves(lineDiscount(_, _)) ==
    (executed'.op = "execute" /\ executed'.result = Ok /\ useCaseVars' # useCaseVars) =>
        LET dto == executed'.dto
            n == Len(dto.items)
            found == findById(savedOrders', executed'.orderId)
        IN /\ saveCalls' = saveCalls + 1
           /\ idsDrawn' = idsDrawn + n + 1
           /\ found # <<>>
           /\ found[1].orderId = executed'.orderId
           /\ found[1].userId = dto.userId
           /\ found[1].status = "Pending"
           /\ Len(found[1].items) = n
           /\ \A i \in 1..n :
                 LET item == found[1].items[i]
                     product == Products[dto.items[i].productId]
                 IN /\ item.productId = dto.items[i].productId
                    /\ item.quantity = dto.items[i].quantity
                    /\ item.priceAtPurchase = product.currentPrice
                    /\ item.discountAmount =
                          IF Len(product.discountIds) > 0
                          THEN lineDiscount(product, dto.items[i].quantity)
                          ELSE 0

\* C30: a successful execute for a request with n entries saves exactly one
\* order, in status Pending, with one item per entry in request order, the
\* requested quantity, the product's current price and a line discount of
\* 10% of price * quantity when the product has a discount id and 0
\* otherwise; it draws n + 1 ids, and findById finds the saved order under
\* its orderId.
C30_SavedOrderTenPercent == [][SuccessfulExecuteSaves(tenPercent)]_vars

\* C30, amended: the same, the line discount being 10% of price * quantity
\* rounded to the nearest cent.
C30_SavedOrderTenPercentToTheCent == [][SuccessfulExecuteSaves(tenPercentToTheCent)]_vars

\* two entries were ordered, the second of a product with a discount id:
\* 2 at 99.99 carry a line discount of 20.00
C30_Witness ==
    /\ executed.op = "execute"
    /\ executed.result = Ok
    /\ Len(executed.dto.items) = 2
    /\ savedOrders # <<>>
    /\ LET order == savedOrders[Len(savedOrders)] IN
          /\ order.orderId = executed.orderId
          /\ Len(order.items) = 2
          /\ order.items[2].productId = "p2"
          /\ order.items[2].quantity = 2
          /\ order.items[2].discountAmount = 20000
          /\ order.items[1].discountAmount = 0

-----------------------------------------------------------------------------
(* Properties of the shipment *)

\* C28: a shipment's status follows Pending -> InTransit -> Delivered, with
\* Failed enterable from every status but Delivered: markAsInTransit returns
\* exactly from Pending, markAsDelivered returns only from InTransit,
\* markAsFailed throws exactly from Delivered; the only changes of status are
\* Pending -> InTransit, InTransit -> Delivered and Pending, InTransit ->
\* Failed, so Delivered and Failed are never left.
C28_ShipmentStatusPath ==
    [][/\ (shipmentCall'.op = "markAsInTransit") =>
             /\ (shipmentCall'.result = Ok) <=> (shipmentStatus = "Pending")
             /\ shipmentCall'.result = Ok => shipmentStatus' = "InTransit"
       /\ (shipmentCall'.op = "markAsDelivered" /\ shipmentCall'.result = Ok) =>
             shipmentStatus = "InTransit" /\ shipmentStatus' = "Delivered"
       /\ (shipmentCall'.op = "markAsFailed") =>
             /\ (shipmentCall'.result # Ok) <=> (shipmentStatus = "Delivered")
             /\ shipmentCall'.result = Ok => shipmentStatus' = "Failed"
       /\ (shipmentStatus \in {"Delivered", "Failed"}) => shipmentStatus' = shipmentStatus
       /\ (shipmentStatus \in ShipmentStatus /\ shipmentStatus' # shipmentStatus) =>
             <<shipmentStatus, shipmentStatus'>> \in
                {<<"Pending", "InTransit">>, <<"InTransit", "Delivered">>,
                 <<"Pending", "Failed">>, <<"InTransit", "Failed">>}]_vars

\* markAsFailed was refused on a delivered shipment
C28_Witness ==
    /\ shipmentStatus = "Delivered"
    /\ shipmentCall.op = "markAsFailed"
    /\ shipmentCall.result = ErrFailDelivered

\* C29: the delivery of a shipment is non-null exactly when its status is
\* Delivered, in every state; and a markAsDelivered call that throws (wrong
\* status, or delivery date, signature or an address field missing) leaves
\* status and delivery unchanged.
C29_DeliveryIffDelivered ==
    [][/\ (shipmentDelivery' # NoDelivery) <=> (shipmentStatus' = "Delivered")
       /\ (shipmentCall'.op = "markAsDelivered" /\ shipmentCall'.result # Ok) =>
             UNCHANGED <<shipmentStatus, shipmentDelivery>>]_vars

\* a delivery without signature was refused on a shipment in transit, which
\* stays in transit without delivery
C29_Witness ==
    /\ shipmentStatus = "InTransit"
    /\ shipmentCall.op = "markAsDelivered"
    /\ shipmentCall.result = ErrSignature
    /\ shipmentDelivery = NoDelivery

=============================================================================
